---- MODULE Spec2Model ----
(***************************************************************************)
(* Model of src/src/Facebook.js: the webhook gateway of wingbot-facebook.   *)
(*                                                                         *)
(* One processEvent call is followed from the synchronous grouping of the  *)
(* envelope (lines 193-221) through the promise chains built by            *)
(* _processEventsOfSender (107-113), the processMessage calls made by the  *)
(* chains' callbacks (122-184) and the Promise.all join (223-225).         *)
(*                                                                         *)
(* JavaScript runs every callback to completion, so the synchronous part   *)
(* of processEvent and each then-callback are single actions.  The first   *)
(* callbacks of all chains run before anything else; after them the order  *)
(* in which ready callbacks of different chains run, and the moment at     *)
(* which the processor settles a promise it returned, are left free: every *)
(* schedule of the event loop is one of the model's schedules.             *)
(***************************************************************************)
EXTENDS Integers, Sequences, FiniteSets, TLC

\* ---------------------------------------------------------------- bounds
MaxEntries == 2     \* entries of an envelope
MaxEvents == 3      \* messaging events of an envelope, over all its entries

\* ------------------------------------------------------------- constants
NULL == "null"
UNDEFINED == "undefined"

\* Facebook.js 10-20
PROCESS_EVENTS ==
    << "postback", "referral", "optin", "pass_thread_control", "message",
       "request_thread_control", "take_thread_control", "read", "delivery" >>

RecognizedKeys == { PROCESS_EVENTS[i] : i \in DOMAIN PROCESS_EVENTS }

\* ---------------------------------------------------------------- inputs
\* message.sender: UNDEFINED is an event without a sender object, any other
\* value is the id of the sender object.
SenderValues == { "A", UNDEFINED }

\* The keys a messaging event of the pool defines.  "defined" are the keys
\* whose value is not undefined, "truthy" those whose value is an object.
FieldSets == { {"message"}, {"pass_thread_control"}, {} }

\* event.id of the i-th entry of an envelope: every entry is the batch of
\* another page.  The code never compares page ids.
PageId(i) == << "page", i >>

ObjectValues == { "page", "user" }

\* The options the gateway is constructed with (constructor, 45-49).
OptionsSet ==
    [ appId : { [ type |-> "string", text |-> "1" ] },
      takeThreadAction : {NULL},
      passThreadAction : {NULL, "pass-action"},
      requestThreadAction : {NULL},
      botToken : {"tok1"},
      appSecret : {UNDEFINED} ]

\* A messaging event.  ref is the identity of the JavaScript object: two
\* events of an envelope are two objects even when their contents are equal.
Message(ref, sender, fields) ==
    [ ref |-> ref, sender |-> sender, defined |-> fields, truthy |-> fields,
      previous_owner_app_id |-> [ type |-> "number", text |-> "2" ],
      timestamp |-> 100 + ref ]

RECURSIVE SumTo(_, _)
SumTo(f, n) == IF n = 0 THEN 0 ELSE f[n] + SumTo(f, n - 1)

\* The envelope with the given entry lengths and event contents;
\* refs number the events in walking order.
Envelope(object, lens, senders, fields) ==
    [ object |-> object,
      entry |-> [ i \in DOMAIN lens |->
          [ id |-> PageId(i),
            messaging |-> [ j \in 1..lens[i] |->
                Message(SumTo(lens, i - 1) + j,
                        senders[SumTo(lens, i - 1) + j],
                        fields[SumTo(lens, i - 1) + j]) ] ] ] ]

\* The lengths of the k entries of an envelope.
EntryLengths(k) == { l \in [1..k -> 0..MaxEvents] : SumTo(l, k) <= MaxEvents }

\* No verifyWebhook or verifyRequest call was made yet.
NoResult == [ call |-> "none" ]

\* ----------------------------------------------------------------- state
VARIABLES
    options,            \* this._options
    pc,                 \* the processEvent call: idle, running, returned, thrown
    body,               \* the envelope processEvent was called with
    otherEvents,        \* processEvent's otherEvents array
    eventsBySenderId,   \* processEvent's Map: sender id -> array of {message, pageId}
    chain,              \* per sender id, the promise chain of _processEventsOfSender
    status,             \* per event ref, what became of its processMessage call
    calls,              \* per sender id of the messageSender, the calls of
                        \* processor.processMessage made so far, in order
    result              \* the last verifyWebhook or verifyRequest call: its
                        \* arguments and what it returned or threw

vars == << options, pc, body, otherEvents, eventsBySenderId, chain, status, calls, result >>

Init ==
    /\ options \in OptionsSet
    /\ pc = "idle"
    /\ body = NULL
    /\ otherEvents = << >>
    /\ eventsBySenderId = << >>
    /\ chain = << >>
    /\ status = << >>
    /\ calls = << >>
    /\ result = NoResult

\* ------------------------------------------------- grouping (193-218)
\* The events of an envelope as {message, pageId} pairs, in walking order.
RECURSIVE Flatten(_)
Flatten(entries) ==
    IF entries = << >> THEN << >>
    ELSE [ j \in DOMAIN Head(entries).messaging |->
             [ message |-> Head(entries).messaging[j], pageId |-> Head(entries).id ] ]
         \o Flatten(Tail(entries))

\* PROCESS_EVENTS.some(e => typeof message[e] !== 'undefined')  (206)
IsProcessable(message) ==
    \E i \in DOMAIN PROCESS_EVENTS : PROCESS_EVENTS[i] \in message.defined

\* Mutant of SenderIdOf: message.sender && message.sender.id, without || null.
SenderIdOf_Raw(message) == message.sender

\* (message.sender && message.sender.id) || null  (207).  message.sender is
\* UNDEFINED for an event without a sender object, NULL for a sender object
\* whose id is null or absent.
SenderIdOf(message) ==
    IF message.sender \in { UNDEFINED, NULL } THEN NULL ELSE message.sender

\* Mutant of GroupMap: a sender's array is built with unshift.
RECURSIVE GroupMap_Unshift(_, _)
GroupMap_Unshift(items, n) ==
    IF n = 0 THEN << >>
    ELSE LET prev == GroupMap_Unshift(items, n - 1)
             item == items[n]
             senderId == SenderIdOf(item.message)
         IN  IF IsProcessable(item.message)
             THEN IF senderId \in DOMAIN prev
                  THEN [ prev EXCEPT ![senderId] = << item >> \o @ ]
                  ELSE [ k \in DOMAIN prev \cup {senderId} |->
                           IF k = senderId THEN << item >> ELSE prev[k] ]
             ELSE prev

\* Mutant of GroupMap: a sender's events all get the page id of the first
\* entry seen for the sender.
RECURSIVE GroupMap_FirstPageId(_, _)
GroupMap_FirstPageId(items, n) ==
    IF n = 0 THEN << >>
    ELSE LET prev == GroupMap_FirstPageId(items, n - 1)
             item == items[n]
             senderId == SenderIdOf(item.message)
         IN  IF IsProcessable(item.message)
             THEN IF senderId \in DOMAIN prev
                  THEN [ prev EXCEPT ![senderId] =
                           Append(@, [ item EXCEPT !.pageId = prev[senderId][1].pageId ]) ]
                  ELSE [ k \in DOMAIN prev \cup {senderId} |->
                           IF k = senderId THEN << item >> ELSE prev[k] ]
             ELSE prev

\* The two forEach loops (201-218) over the flattened events: the state of
\* the Map and of otherEvents after the first n events.
RECURSIVE GroupMap(_, _)
GroupMap(items, n) ==
    IF n = 0 THEN << >>
    ELSE LET prev == GroupMap(items, n - 1)
             item == items[n]
             senderId == SenderIdOf(item.message)
         IN  IF IsProcessable(item.message)
             THEN IF senderId \in DOMAIN prev
                  THEN [ prev EXCEPT ![senderId] = Append(@, item) ]
                  ELSE [ k \in DOMAIN prev \cup {senderId} |->
                           IF k = senderId THEN << item >> ELSE prev[k] ]
             ELSE prev

\* Mutant of GroupOther: every event is pushed to otherEvents.
RECURSIVE GroupOther_All(_, _)
GroupOther_All(items, n) ==
    IF n = 0 THEN << >> ELSE Append(GroupOther_All(items, n - 1), items[n])

\* Mutant of GroupOther: otherEvents is built with unshift.
RECURSIVE GroupOther_Unshift(_, _)
GroupOther_Unshift(items, n) ==
    IF n = 0 THEN << >>
    ELSE IF IsProcessable(items[n].message)
         THEN GroupOther_Unshift(items, n - 1)
         ELSE << items[n] >> \o GroupOther_Unshift(items, n - 1)

RECURSIVE GroupOther(_, _)
GroupOther(items, n) ==
    IF n = 0 THEN << >>
    ELSE IF IsProcessable(items[n].message)
         THEN GroupOther(items, n - 1)
         ELSE Append(GroupOther(items, n - 1), items[n])

\* ------------------------------------------- processMessage (122-184)
\* Mutant of TemplateString: the ids are compared as they are (===).
TemplateString_Strict(value) == value

\* `${value}`: the text of a value in a template string (136-137).  An id is
\* a string or a number; the number 1 and the string "1" have the same text.
TemplateString(value) == value.text

\* Request.postBack(senderId, action, data, null, null, timestamp).  data is
\* the payload object found under the given key of the message, named here by
\* the message and the key.
PostBack(senderId, action, message, key) ==
    [ type |-> "postback",
      sender |-> senderId,
      action |-> action,
      data |-> [ key |-> key, of |-> message.ref ],
      timestamp |-> message.timestamp ]

\* event = null  (149, 162, 175)
NoEvent == [ type |-> "null" ]

\* let event = message  (133)
Unchanged(message) == [ type |-> "message", message |-> message ]

\* The event processMessage hands to the processor, NoEvent when it hands none
\* (133-177).
EventFor(message, senderId, opts) ==
    IF "take_thread_control" \in message.truthy
    THEN LET takeToSelf == TemplateString(message.previous_owner_app_id)
                               = TemplateString(opts.appId)
         IN  IF opts.takeThreadAction # NULL /\ ~takeToSelf
             THEN PostBack(senderId, opts.takeThreadAction, message,
                           "take_thread_control")
             ELSE NoEvent
    ELSE IF "pass_thread_control" \in message.truthy
    THEN IF opts.passThreadAction # NULL
         THEN PostBack(senderId, opts.passThreadAction, message,
                       "pass_thread_control")
         ELSE NoEvent
    ELSE IF "request_thread_control" \in message.truthy
    THEN IF opts.requestThreadAction # NULL
         THEN PostBack(senderId, opts.requestThreadAction, message,
                       "request_thread_control")
         ELSE NoEvent
    ELSE Unchanged(message)

\* ------------------------------------------------ processEvent (192-226)
\* The keys of the Map.
SenderIds == DOMAIN eventsBySenderId

\* The sender ids the events of the pool can have.
SenderIdValues == { SenderIdOf([ sender |-> v ]) : v \in SenderValues }

\* Mutant of ProcessEvent: no early return for an envelope that is no page
\* envelope.
ProcessEvent_NoEarlyReturn(b) ==
    /\ pc = "idle"
    /\ body' = b
    /\ LET items == Flatten(b.entry)
           map == GroupMap(items, Len(items))
       IN  /\ pc' = "running"
           /\ otherEvents' = GroupOther(items, Len(items))
           /\ eventsBySenderId' = map
           /\ chain' = [ s \in DOMAIN map |-> [ ran |-> 0, state |-> "fulfilled" ] ]
           /\ status' = [ r \in 1..Len(items) |-> "none" ]
           /\ calls' = [ s \in DOMAIN map |-> << >> ]
    /\ UNCHANGED << result, options >>

\* The synchronous part of processEvent: the early return for an envelope
\* that is no page envelope (195-197), the grouping (199-218) and the
\* construction of one promise chain per sender (220-221).  A chain is the
\* promise made by k then-calls on Promise.resolve(): ran counts the
\* callbacks that have run, state is the state of the promise the chain
\* waits for next (Promise.resolve() itself before the first callback).
ProcessEvent(b) ==
    /\ pc = "idle"
    /\ body' = b
    /\ IF b.object # "page"
       THEN /\ pc' = "returned"
            /\ UNCHANGED << otherEvents, eventsBySenderId, chain, status, calls >>
       ELSE LET items == Flatten(b.entry)
                map == GroupMap(items, Len(items))
            IN  /\ pc' = "running"
                /\ otherEvents' = GroupOther(items, Len(items))
                /\ eventsBySenderId' = map
                /\ chain' = [ s \in DOMAIN map |-> [ ran |-> 0, state |-> "fulfilled" ] ]
                /\ status' = [ r \in 1..Len(items) |-> "none" ]
                /\ calls' = [ s \in DOMAIN map |-> << >> ]
    /\ UNCHANGED << result, options >>

\* Mutant of CallbackReady: a failure does not stop the chain.
CallbackReady_Catch(s) ==
    /\ chain[s].state \in { "fulfilled", "rejected" }
    /\ chain[s].ran < Len(eventsBySenderId[s])

\* Mutant of CallbackReady: the first failure stops every chain.
CallbackReady_FailFast(s) ==
    /\ chain[s].state = "fulfilled"
    /\ chain[s].ran < Len(eventsBySenderId[s])
    /\ \A t \in SenderIds : chain[t].state # "rejected"

\* Mutant of CallbackReady: one event at a time over all senders.
CallbackReady_Global(s) ==
    /\ chain[s].state = "fulfilled"
    /\ chain[s].ran < Len(eventsBySenderId[s])
    /\ \A t \in SenderIds : chain[t].state # "pending"

\* Mutant of CallbackReady: the events of a sender are dispatched without
\* waiting for the promise of the event before.
CallbackReady_Parallel(s) ==
    /\ chain[s].state \in { "fulfilled", "pending" }
    /\ chain[s].ran < Len(eventsBySenderId[s])

\* _processEventsOfSender (107-113): the next callback of a sender's chain
\* runs once the promise before it is fulfilled.
CallbackReady(s) ==
    /\ chain[s].state = "fulfilled"
    /\ chain[s].ran < Len(eventsBySenderId[s])

\* Every chain starts from Promise.resolve() (111), so the first callback of
\* every chain is queued as a microtask by the synchronous part of
\* processEvent (220-221): all of them run before any continuation that is
\* queued later, whatever the processor does.
FirstCallbacksRan == \A s \in SenderIds : chain[s].ran >= 1

\* Mutant of RunCallback: a callback without an event rejects its chain
\* instead of resolving it with { status: 201 }.
RunCallback_DiscardStops(s) ==
    /\ s \in SenderIds
    /\ CallbackReady(s)
    /\ chain[s].ran >= 1 => FirstCallbacksRan
    /\ LET item == eventsBySenderId[s][chain[s].ran + 1]
           event == EventFor(item.message, s, options)
       IN  IF event = NoEvent
           THEN /\ status' = [ status EXCEPT ![item.message.ref] = "status201" ]
                /\ chain' = [ chain EXCEPT ![s] = [ ran |-> @.ran + 1, state |-> "rejected" ] ]
                /\ UNCHANGED calls
           ELSE /\ status' = [ status EXCEPT ![item.message.ref] = "inflight" ]
                /\ chain' = [ chain EXCEPT ![s] = [ ran |-> @.ran + 1, state |-> "pending" ] ]
                /\ calls' = [ calls EXCEPT ![s] = Append(@,
                       [ event |-> event, pageId |-> item.pageId,
                         messageSender |-> [ senderId |-> s, message |-> item.message ] ]) ]
    /\ UNCHANGED << result, options, pc, body, otherEvents, eventsBySenderId >>

\* One then-callback: () => this.processMessage(message, senderId, pageId)
\* (109-110), with processMessage inlined (122-184).  Without an event the
\* callback returns a promise already resolved with { status: 201 } (179-181);
\* otherwise it calls the processor and returns the processor's promise (183).
RunCallback(s) ==
    /\ s \in SenderIds
    /\ CallbackReady(s)
    /\ chain[s].ran >= 1 => FirstCallbacksRan
    /\ LET item == eventsBySenderId[s][chain[s].ran + 1]
           event == EventFor(item.message, s, options)
       IN  IF event = NoEvent
           THEN /\ status' = [ status EXCEPT ![item.message.ref] = "status201" ]
                /\ chain' = [ chain EXCEPT ![s].ran = @ + 1 ]
                /\ UNCHANGED calls
           ELSE /\ status' = [ status EXCEPT ![item.message.ref] = "inflight" ]
                /\ chain' = [ chain EXCEPT ![s] = [ ran |-> @.ran + 1, state |-> "pending" ] ]
                /\ calls' = [ calls EXCEPT ![s] = Append(@,
                       [ event |-> event, pageId |-> item.pageId,
                         messageSender |-> [ senderId |-> s, message |-> item.message ] ]) ]
    /\ UNCHANGED << result, options, pc, body, otherEvents, eventsBySenderId >>

\* The ref of the event whose processor promise a chain waits for, 0 if none.
Awaited(s) ==
    IF chain[s].state = "pending" /\ chain[s].ran > 0
    THEN eventsBySenderId[s][chain[s].ran].message.ref
    ELSE 0

\* The chains after the processor's promise for event r has settled.
Settle(r, state) ==
    [ s \in DOMAIN chain |->
        IF Awaited(s) = r THEN [ chain[s] EXCEPT !.state = state ] ELSE chain[s] ]

\* The processor fulfils the promise it returned for event r.
ProcessorResolve(r) ==
    /\ r \in DOMAIN status
    /\ status[r] = "inflight"
    /\ FirstCallbacksRan
    /\ status' = [ status EXCEPT ![r] = "resolved" ]
    /\ chain' = Settle(r, "fulfilled")
    /\ UNCHANGED << result, options, pc, body, otherEvents, eventsBySenderId, calls >>

\* The processor rejects the promise it returned for event r: the rejection
\* passes through the remaining then-calls of the chain (109-110).
ProcessorReject(r) ==
    /\ r \in DOMAIN status
    /\ status[r] = "inflight"
    /\ FirstCallbacksRan
    /\ status' = [ status EXCEPT ![r] = "rejected" ]
    /\ chain' = Settle(r, "rejected")
    /\ UNCHANGED << result, options, pc, body, otherEvents, eventsBySenderId, calls >>

\* The processor never settles the promise it returned for event r.
ProcessorHang(r) ==
    /\ r \in DOMAIN status
    /\ status[r] = "inflight"
    /\ status' = [ status EXCEPT ![r] = "hung" ]
    /\ UNCHANGED << result, options, pc, body, otherEvents, eventsBySenderId, chain, calls >>

ChainFulfilled(s) ==
    chain[s].state = "fulfilled" /\ chain[s].ran = Len(eventsBySenderId[s])

ChainRejected(s) == chain[s].state = "rejected"

\* Mutant of AllFulfilled: the join does not wait for a pending chain.
AllFulfilled_NoWait ==
    \A s \in SenderIds : chain[s].state # "rejected"

\* Promise.all(process) is fulfilled when every chain is (223).
AllFulfilled == \A s \in SenderIds : ChainFulfilled(s)

\* Promise.all(process) is rejected as soon as one chain is (223).
AllRejected == \E s \in SenderIds : ChainRejected(s)

\* await Promise.all(process); return otherEvents  (223-225)
Return ==
    /\ pc = "running"
    /\ AllFulfilled
    /\ pc' = "returned"
    /\ UNCHANGED << result, options, body, otherEvents, eventsBySenderId, chain, status, calls >>

\* await Promise.all(process) throws: processEvent's promise is rejected (223)
Throw ==
    /\ pc = "running"
    /\ FirstCallbacksRan
    /\ AllRejected
    /\ pc' = "thrown"
    /\ UNCHANGED << result, options, body, otherEvents, eventsBySenderId, chain, status, calls >>

Refs == 1..MaxEvents

\* A caller calls processEvent with an envelope of at most n entries.
Receive(n) ==
    /\ pc = "idle"
    /\ \E k \in 0..n : \E lens \in EntryLengths(k) :
         \E o \in ObjectValues,
            s \in [1..SumTo(lens, k) -> SenderValues],
            f \in [1..SumTo(lens, k) -> FieldSets] :
              ProcessEvent(Envelope(o, lens, s, f))

\* The steps of the event loop after the synchronous part of processEvent.
Async ==
    \/ \E s \in SenderIds : RunCallback(s)
    \/ \E r \in Refs : ProcessorResolve(r)
    \/ \E r \in Refs : ProcessorReject(r)
    \/ \E r \in Refs : ProcessorHang(r)
    \/ Return
    \/ Throw

Next == Receive(MaxEntries) \/ Async

Spec == Init /\ [][Next]_vars

\* The entries of an envelope only give its events their page ids, which no
\* chain looks at: for the liveness claims the envelopes have one entry.
FairNext == Receive(1) \/ Async

\* The event loop runs every ready callback and continuation, and every
\* promise of the processor is eventually resolved, rejected or known to hang.
FairSpec ==
    /\ Init /\ [][FairNext]_vars
    /\ \A s \in SenderIdValues : WF_vars(RunCallback(s))
    /\ \A r \in Refs :
          WF_vars(ProcessorResolve(r) \/ ProcessorReject(r) \/ ProcessorHang(r))
    /\ WF_vars(Return)
    /\ WF_vars(Throw)

\* ------------------------------------------------- kinds of events
\* The specification of the classification and of the thread-control rules:
\* envelopes of one entry whose first event is drawn from all the kinds of
\* events, under all the ways to configure the three actions.
KindOptions ==
    [ appId : { [ type |-> "string", text |-> "1" ] },
      takeThreadAction : {NULL, "take-action"},
      passThreadAction : {NULL, "pass-action"},
      requestThreadAction : {NULL, "request-action"},
      botToken : {"tok1"},
      appSecret : {UNDEFINED} ]

KindSenders == { "A", UNDEFINED, NULL }

\* The keys of an event: one recognized key, none, two at once, or a key
\* whose value is defined but null.
KindFields ==
    { [ defined |-> {k}, truthy |-> {k} ] : k \in RecognizedKeys }
    \cup { [ defined |-> d, truthy |-> d ] :
             d \in { {}, {"postback", "take_thread_control"},
                     {"message", "pass_thread_control"},
                     {"pass_thread_control", "take_thread_control"},
                     {"request_thread_control", "take_thread_control"},
                     {"pass_thread_control", "request_thread_control"},
                     {"take_thread_control", "read"} } }
    \cup { [ defined |-> {k}, truthy |-> {} ] :
             k \in { "message", "pass_thread_control" } }

\* take_thread_control.previous_owner_app_id: this app as a number or as a
\* string, or another app.
PreviousOwners(fields) ==
    IF "take_thread_control" \in fields.truthy
    THEN { [ type |-> "number", text |-> "1" ], [ type |-> "string", text |-> "1" ],
           [ type |-> "number", text |-> "2" ] }
    ELSE { [ type |-> "number", text |-> "2" ] }

KindMessage(ref, sender, fields, owner) ==
    [ Message(ref, sender, fields.defined)
        EXCEPT !.truthy = fields.truthy, !.previous_owner_app_id = owner ]

\* A caller calls processEvent with a page envelope of one entry: an event
\* of any kind, alone or followed by a message event.
ReceiveKinds ==
    /\ pc = "idle"
    /\ \E sender \in KindSenders, fields \in KindFields :
         \E owner \in PreviousOwners(fields) :
           \E rest \in { << >> } \cup { << Message(2, s, {"message"}) >> : s \in KindSenders } :
             ProcessEvent([ object |-> "page",
                            entry |-> << [ id |-> PageId(1),
                                           messaging |->
                                             << KindMessage(1, sender, fields, owner) >>
                                             \o rest ] >> ])

InitKinds ==
    /\ options \in KindOptions
    /\ pc = "idle"
    /\ body = NULL
    /\ otherEvents = << >>
    /\ eventsBySenderId = << >>
    /\ chain = << >>
    /\ status = << >>
    /\ calls = << >>
    /\ result = NoResult

KindNext == ReceiveKinds \/ Async

KindSpec == InitKinds /\ [][KindNext]_vars

\* ------------------------------------------------- verification (51-105)
\* The values JavaScript's ! takes for false, among the strings of the model.
Falsy(value) == value \in { UNDEFINED, NULL, "" }

\* _getUnauthorizedError (51-54).
GetUnauthorizedError(message) ==
    [ type |-> "throw", message |-> << "Unauthorized: ", message >>,
      code |-> 401, status |-> 401 ]

\* return value (69).
Returned(value) == [ type |-> "return", value |-> value ]

\* return Promise.resolve() (85, 104).
ResolvedPromise == [ type |-> "promise", state |-> "fulfilled" ]

\* options.botToken: absent, empty or a token.
BotTokens == { UNDEFINED, "", "tok1", "tok2" }

\* The query of a verification request: hub.verify_token and hub.challenge,
\* each absent or a string.
QueryStrings ==
    [ verify_token : { UNDEFINED, "", "tok1", "tok2" },
      challenge : { UNDEFINED, "c1", "c2" } ]

\* verifyWebhook (63-73) where every token is accepted.
VerifyWebhookResult_AnyToken(opts, queryString) ==
    IF Falsy(opts.botToken)
    THEN GetUnauthorizedError("Missing configuration (config.botToken)")
    ELSE IF Falsy(queryString.verify_token)
    THEN GetUnauthorizedError("Missing hub.verify_token in query")
    ELSE Returned(queryString.challenge)

\* verifyWebhook (63-73): what it returns or throws.
VerifyWebhookResult(opts, queryString) ==
    IF Falsy(opts.botToken)
    THEN GetUnauthorizedError("Missing configuration (config.botToken)")
    ELSE IF Falsy(queryString.verify_token)
    THEN GetUnauthorizedError("Missing hub.verify_token in query")
    ELSE IF queryString.verify_token = opts.botToken
    THEN Returned(queryString.challenge)
    ELSE GetUnauthorizedError("Wrong hub.verify_token (config.botToken)")

\* options.appSecret: absent, empty or a secret.
AppSecrets == { UNDEFINED, "", "s1", "s2" }

\* crypto.createHmac('sha1', key).update(data).digest('hex') (96-99) over the
\* bodies and the secrets of the model: a different digest for every pair.
\* body2 is body1 with one byte changed.
HmacSha1Hex(key, data) ==
    [ s1 |-> [ body1 |-> "a1", body2 |-> "b2" ],
      s2 |-> [ body1 |-> "c3", body2 |-> "d4" ] ][key][data]

Bodies == { "body1", "body2" }

\* A header value is a text: a sequence of pieces, the piece "=" being the
\* character '=' and every other piece a run of other characters.  A digest
\* is a text of one piece.
HeaderTexts ==
    { << >>, << "sha1" >>, << "sha1", "=" >>, << "a1" >>,
      << "md5", "=", "a1" >>, << "sha1", "=", "a1", "=", "x" >> }
    \cup { << "sha1", "=", d >> : d \in { "a1", "b2", "c3", "d4", "00" } }

HeaderNames == { "x-hub-signature", "X-Hub-Signature" }

\* The header maps: each of the two names absent or present.
HeaderMaps == UNION { [ names -> HeaderTexts ] : names \in SUBSET HeaderNames }

\* headers[name] is truthy: present and not the empty string.
HasHeader(headers, name) == name \in DOMAIN headers /\ headers[name] # << >>

\* !signature is false (88-90).
SignaturePresent(headers) == \E name \in HeaderNames : HasHeader(headers, name)

\* headers['x-hub-signature'] || headers['X-Hub-Signature'] (88), when one
\* of them is truthy.
Signature(headers) ==
    IF HasHeader(headers, "x-hub-signature")
    THEN headers["x-hub-signature"]
    ELSE headers["X-Hub-Signature"]

\* String.prototype.split('=') (94): the texts between the '=' pieces.
RECURSIVE Split(_)
Split(text) ==
    IF \A i \in 1..Len(text) : text[i] # "="
    THEN << text >>
    ELSE LET i == CHOOSE j \in 1..Len(text) :
                    text[j] = "=" /\ \A k \in 1..(j - 1) : text[k] # "="
         IN  << SubSeq(text, 1, i - 1) >> \o Split(SubSeq(text, i + 1, Len(text)))

\* The comparison of 95 and 101 made on the first element of the split.
SignatureMatches_First(elements, expectedHash) == elements[1] = << expectedHash >>

\* signatureHash === expectedHash (95, 101): elements[1] of JavaScript is the
\* second element; an undefined one equals no digest.
SignatureMatches(elements, expectedHash) ==
    Len(elements) >= 2 /\ elements[2] = << expectedHash >>

\* verifyRequest (83-105) where the header is looked for before appSecret.
VerifyRequestResult_HeaderFirst(opts, rawBody, headers) ==
    IF ~SignaturePresent(headers)
    THEN GetUnauthorizedError("Missing X-Hub-Signature")
    ELSE IF Falsy(opts.appSecret)
    THEN ResolvedPromise
    ELSE IF ~SignatureMatches(Split(Signature(headers)),
                             HmacSha1Hex(opts.appSecret, rawBody))
    THEN GetUnauthorizedError("Couldn't validate the request signature.")
    ELSE ResolvedPromise

\* verifyRequest (83-105): what it returns or throws.
VerifyRequestResult(opts, rawBody, headers) ==
    IF Falsy(opts.appSecret)
    THEN ResolvedPromise
    ELSE IF ~SignaturePresent(headers)
    THEN GetUnauthorizedError("Missing X-Hub-Signature")
    ELSE IF ~SignatureMatches(Split(Signature(headers)),
                             HmacSha1Hex(opts.appSecret, rawBody))
    THEN GetUnauthorizedError("Couldn't validate the request signature.")
    ELSE ResolvedPromise

\* A caller calls verifyWebhook.
VerifyWebhook ==
    /\ \E queryString \in QueryStrings :
         result' = [ call |-> "verifyWebhook", queryString |-> queryString,
                     outcome |-> VerifyWebhookResult(options, queryString) ]
    /\ UNCHANGED << options, pc, body, otherEvents, eventsBySenderId, chain, status, calls >>

\* A caller calls verifyRequest.
VerifyRequest ==
    /\ \E rawBody \in Bodies, headers \in HeaderMaps :
         result' = [ call |-> "verifyRequest", body |-> rawBody, headers |-> headers,
                     outcome |-> VerifyRequestResult(options, rawBody, headers) ]
    /\ UNCHANGED << options, pc, body, otherEvents, eventsBySenderId, chain, status, calls >>

\* The gateway under all the ways to configure botToken and appSecret.
VerifyOptions ==
    [ appId : { [ type |-> "string", text |-> "1" ] },
      takeThreadAction : {NULL},
      passThreadAction : {NULL},
      requestThreadAction : {NULL},
      botToken : BotTokens,
      appSecret : AppSecrets ]

InitVerify ==
    /\ options \in VerifyOptions
    /\ pc = "idle"
    /\ body = NULL
    /\ otherEvents = << >>
    /\ eventsBySenderId = << >>
    /\ chain = << >>
    /\ status = << >>
    /\ calls = << >>
    /\ result = NoResult

VerifyNext == VerifyWebhook \/ VerifyRequest

VerifySpec == InitVerify /\ [][VerifyNext]_vars

\* =================================================================== claims
\* processEvent was called with a page envelope.
Page == pc # "idle" /\ body.object = "page"

\* The events of the envelope, in walking order.
AllItems == IF Page THEN Flatten(body.entry) ELSE << >>

IsPrefix(p, q) == Len(p) <= Len(q) /\ \A i \in 1..Len(p) : p[i] = q[i]

\* The refs of the events the processor was called for with sender id s, in
\* the order of the calls.
CallRefs(s) ==
    IF s \in DOMAIN calls
    THEN [ i \in 1..Len(calls[s]) |-> calls[s][i].messageSender.message.ref ]
    ELSE << >>

\* processMessage hands no event to the processor for this message.
Discarded(message) == EventFor(message, SenderIdOf(message), options) = NoEvent

\* The refs of the envelope's events of sender s that are to be dispatched,
\* in the envelope's order.
DispatchableRefs(s) ==
    LET sel == SelectSeq(AllItems, LAMBDA it :
                   /\ SenderIdOf(it.message) = s
                   /\ it.message.defined \cap RecognizedKeys # {}
                   /\ ~Discarded(it.message))
    IN  [ i \in 1..Len(sel) |-> sel[i].message.ref ]

\* The processor's promise for the event a chain waits for never settles.
Hung(s) == s \in SenderIds /\ Awaited(s) # 0 /\ status[Awaited(s)] = "hung"

\* The chain of s has settled: all its events are done, or it stopped on a
\* failure.
Settled(s) == s \in SenderIds /\ (ChainFulfilled(s) \/ ChainRejected(s))

\* The calls of the processor that are in flight for sender s.
InFlight(s) ==
    { r \in DOMAIN status :
        /\ status[r] \in { "inflight", "hung" }
        /\ SenderIdOf(AllItems[r].message) = s }

\* C1: for every sender identity, the processor is called for that sender's
\* dispatched events in exactly the order of the envelope (entries in order,
\* events of an entry in order), whenever the calls complete: the calls made
\* so far are always a prefix of the sender's dispatchable events.
C1_OrderPerSender ==
    \A s \in SenderIdValues : IsPrefix(CallRefs(s), DispatchableRefs(s))

\* Two calls were made for one sender whose events lie in different entries,
\* while another sender's call has not completed.
C1_Witness ==
    \E s \in SenderIds, t \in SenderIds :
        /\ s # t
        /\ Len(calls[s]) >= 2
        /\ calls[s][1].pageId # calls[s][2].pageId
        /\ InFlight(t) # {}

\* C2: at most one processor call is in flight per sender identity, and a
\* call for a sender's event is made only after the calls for all its earlier
\* events have completed.
C2_OneInFlightPerSender ==
    \A s \in SenderIdValues :
        /\ Cardinality(InFlight(s)) <= 1
        /\ \A i \in 1..(Len(CallRefs(s)) - 1) :
               status[CallRefs(s)[i]] \in { "resolved", "rejected" }

\* The second call of a sender is in flight, its first has completed.
C2_Witness ==
    \E s \in SenderIds :
        /\ Len(calls[s]) = 2
        /\ status[CallRefs(s)[1]] = "resolved"
        /\ status[CallRefs(s)[2]] = "inflight"

\* C3: sender queues do not wait on each other.  When the processor call a
\* sender's chain waits for never completes, the chain of every other sender
\* still runs to its own end: it dispatches all its events, or stops on a
\* failure or a hung call of its own.
C3_QueuesIndependent ==
    \A a \in SenderIdValues, b \in SenderIdValues :
        a # b => ((Hung(a) /\ b \in SenderIds) ~> (Settled(b) \/ Hung(b)))

\* The call for A's first event hangs, A's events come first in the envelope,
\* and B's events have all been dispatched and have completed.
C3_Witness ==
    \E a \in SenderIds, b \in SenderIds :
        /\ a # b
        /\ Hung(a) /\ chain[a].ran = 1
        /\ eventsBySenderId[a][1].message.ref < eventsBySenderId[b][1].message.ref
        /\ ChainFulfilled(b)
        /\ Len(calls[b]) >= 1
        /\ \A i \in 1..Len(calls[b]) : status[CallRefs(b)[i]] = "resolved"

\* How often the event with ref r was handed to the processor, and how often
\* it occurs in the pass-through list.
TimesDispatched(r) ==
    Cardinality({ << s, i >> \in SenderIds \X (1..MaxEvents) :
                     i <= Len(calls[s]) /\ CallRefs(s)[i] = r })

TimesPassedThrough(r) ==
    Cardinality({ i \in 1..Len(otherEvents) : otherEvents[i].message.ref = r })

ReturnedPage == pc = "returned" /\ body.object = "page"

\* C4, as claimed: when processEvent returns for a page envelope (all its
\* processor calls have succeeded), every event of the envelope was either
\* dispatched to the processor once or is once in the pass-through list.
C4_Claimed ==
    ReturnedPage =>
        \A r \in 1..Len(AllItems) : TimesDispatched(r) + TimesPassedThrough(r) = 1

\* C4, amended: every event is dispatched once or passed through once, except
\* the thread-control events processMessage discards, which are neither.
C4_PartitionButDiscarded ==
    ReturnedPage =>
        \A r \in 1..Len(AllItems) :
            TimesDispatched(r) + TimesPassedThrough(r) =
                IF /\ AllItems[r].message.defined \cap RecognizedKeys # {}
                   /\ Discarded(AllItems[r].message)
                THEN 0 ELSE 1

\* processEvent has returned for an envelope with a dispatched event, a
\* passed-through event and a discarded one.
C4_Witness ==
    /\ ReturnedPage
    /\ \E r \in 1..Len(AllItems) : TimesDispatched(r) = 1
    /\ \E r \in 1..Len(AllItems) : TimesPassedThrough(r) = 1
    /\ \E r \in 1..Len(AllItems) : status[r] = "status201"

\* The events of sender s after its i-th.
LaterEvents(s, i) ==
    { eventsBySenderId[s][j].message.ref : j \in (i + 1)..Len(eventsBySenderId[s]) }

\* C5: a processor failure for an event of a sender stops that sender's
\* queue: for no later event of the sender is processMessage ever called.
C5_FailureStopsQueue ==
    \A s \in SenderIds : \A i \in 1..Len(eventsBySenderId[s]) :
        status[eventsBySenderId[s][i].message.ref] = "rejected" =>
            \A r \in LaterEvents(s, i) : status[r] = "none"

\* A call of a sender with later events has failed, the failure was reported
\* and every other queue has run to its end.
C5_Witness ==
    \E s \in SenderIds :
        /\ status[eventsBySenderId[s][1].message.ref] = "rejected"
        /\ Len(eventsBySenderId[s]) >= 2
        /\ pc = "thrown"
        /\ \A t \in SenderIds \ {s} : ChainFulfilled(t)

\* C6: a processor failure for sender A does not keep the other senders'
\* queues from completing: every other queue still dispatches all its events,
\* in order, unless a call of its own fails or hangs.
C6_FailureIsolated ==
    \A a \in SenderIdValues, b \in SenderIdValues :
        a # b =>
            ( (a \in SenderIds /\ ChainRejected(a) /\ b \in SenderIds)
              ~> ( b \in SenderIds /\
                     \/ Hung(b)
                     \/ ChainRejected(b)
                     \/ ChainFulfilled(b) /\ CallRefs(b) = DispatchableRefs(b) ) )

\* A's first call has failed and B's two events have been dispatched.
C6_Witness ==
    \E a \in SenderIds, b \in SenderIds :
        /\ a # b
        /\ ChainRejected(a)
        /\ eventsBySenderId[a][1].message.ref < eventsBySenderId[b][1].message.ref
        /\ ChainFulfilled(b)
        /\ Len(calls[b]) = 2

\* C7, as claimed: processEvent reports a processor failure only after every
\* sender queue has settled.
C7_Claimed ==
    pc = "thrown" => \A s \in SenderIds : Settled(s)

\* C8, as claimed: a processor call that never completes does not keep
\* processEvent from returning: once every other queue is done, it can return.
C8_Claimed ==
    \A a \in SenderIds :
        ( /\ pc = "running"
          /\ Hung(a)
          /\ \A b \in SenderIds \ {a} : ChainFulfilled(b) )
        => ENABLED Return

\* C8, amended: a processor call that never completes blocks the later
\* events of its own sender queue and keeps processEvent from returning its
\* pass-through list; it does not block the queues of the other senders.
C8_HungBlocksOwnQueueAndReturn ==
    /\ [](\A a \in SenderIdValues :
            Hung(a) => /\ \A r \in LaterEvents(a, chain[a].ran) : status[r] = "none"
                       /\ pc # "returned")
    /\ \A a \in SenderIdValues, b \in SenderIdValues :
          a # b => ((Hung(a) /\ b \in SenderIds /\ ~Settled(b))
                      ~> (Settled(b) \/ Hung(b)))

\* A call hangs, its sender has a later event, and every other queue is done.
C8_Witness ==
    \E a \in SenderIds :
        /\ Hung(a)
        /\ LaterEvents(a, chain[a].ran) # {}
        /\ SenderIds # {a}
        /\ \A b \in SenderIds \ {a} : ChainFulfilled(b)

\* No processor call is in flight and no callback is left to run.
AllQueuesCompleted ==
    /\ \A s \in SenderIds : ChainFulfilled(s)
    /\ \A r \in DOMAIN status : status[r] \notin { "inflight", "hung" }

\* C9: processEvent returns the pass-through list only after every sender
\* queue has completed, and once called it does return unless a processor
\* call fails or never completes.
C9_ReturnsAfterAllQueues ==
    /\ [](pc = "returned" => AllQueuesCompleted)
    /\ (pc # "idle") ~>
          \/ pc = "returned"
          \/ \E r \in DOMAIN status : status[r] \in { "rejected", "hung" }

\* processEvent has returned after the queues of two senders completed.
C9_Witness ==
    /\ ReturnedPage
    /\ Cardinality(SenderIds) = 2
    /\ \A s \in SenderIds : Len(calls[s]) >= 1

\* The events of the envelope that have none of the nine recognized keys, as
\* {message, pageId} pairs in the envelope's order.
UnrecognizedItems ==
    SelectSeq(AllItems, LAMBDA it :
        it.message.defined \cap
            { "postback", "referral", "optin", "pass_thread_control", "message",
              "request_thread_control", "take_thread_control", "read",
              "delivery" } = {})

\* C10: the pass-through list holds exactly the events without a recognized
\* key, unmodified and in arrival order across entries; it is complete before
\* the first processor call and does not change while the queues run.
C10_PassThroughBuiltOnce ==
    /\ [](pc # "idle" => otherEvents = UnrecognizedItems)
    /\ [][pc # "idle" => otherEvents' = otherEvents]_vars

\* Events of two entries were passed through and a queue is running.
C10_Witness ==
    /\ pc = "running"
    /\ Len(otherEvents) = 2
    /\ otherEvents[1].pageId # otherEvents[2].pageId
    /\ \E s \in SenderIds : InFlight(s) # {}

\* processEvent was called with an envelope that is no page envelope.
NotPage == pc # "idle" /\ body.object # "page"

\* C11: for an envelope whose object is not 'page', processEvent returns an
\* empty pass-through list without throwing, and no processor call is ever
\* made, whatever the entries contain.
C11_NonPageShortCircuits ==
    NotPage =>
        /\ pc = "returned"
        /\ otherEvents = << >>
        /\ calls = << >>
        /\ \A r \in DOMAIN status : status[r] = "none"

\* processEvent has returned for an envelope that is no page envelope and
\* holds a recognized event and an unrecognized one.
C11_Witness ==
    /\ NotPage
    /\ pc = "returned"
    /\ \E i \in DOMAIN body.entry :
          /\ \E j \in DOMAIN body.entry[i].messaging :
                body.entry[i].messaging[j].defined \cap RecognizedKeys # {}
          /\ \E j \in DOMAIN body.entry[i].messaging :
                body.entry[i].messaging[j].defined \cap RecognizedKeys = {}

\* The kind of an event: the first of the recognized keys, in the order of
\* PROCESS_EVENTS, under which it has a defined value; "other" without one.
KindOf(message) ==
    IF message.defined \cap RecognizedKeys = {} THEN "other"
    ELSE PROCESS_EVENTS[
           CHOOSE i \in DOMAIN PROCESS_EVENTS :
              /\ PROCESS_EVENTS[i] \in message.defined
              /\ \A j \in 1..(i - 1) : PROCESS_EVENTS[j] \notin message.defined ]

\* The events handed to the processor for the envelope's event r.
EventsDispatched(r) ==
    { calls[s][i].event :
        << s, i >> \in { c \in SenderIds \X (1..MaxEvents) :
                           c[2] <= Len(calls[c[1]]) /\ CallRefs(c[1])[c[2]] = r } }

\* The sender id of an event: null without a sender or without a sender id.
OriginalSender(message) ==
    IF message.sender = UNDEFINED \/ message.sender = NULL THEN NULL
    ELSE message.sender

\* processMessage was called for the envelope's event r.
Handled(r) == status[r] # "none"

\* The event r is consumed: it is not handed to the processor and it is not
\* in the pass-through list.
FullyDiscarded(r) ==
    /\ TimesDispatched(r) = 0
    /\ TimesPassedThrough(r) = 0
    /\ status[r] \in { "none", "status201" }

\* The event r is handed to the processor once, as a postback with the
\* original sender, the given action, the payload under the given key and
\* the original timestamp, and it is not in the pass-through list.
DispatchedAsPostback(r, action, key) ==
    /\ TimesPassedThrough(r) = 0
    /\ TimesDispatched(r) = (IF Handled(r) THEN 1 ELSE 0)
    /\ \A e \in EventsDispatched(r) :
          e = [ type |-> "postback",
                sender |-> OriginalSender(AllItems[r].message),
                action |-> action,
                data |-> [ key |-> key, of |-> r ],
                timestamp |-> AllItems[r].message.timestamp ]

\* The event r is an event of the given thread-control kind with a payload.
IsControlEvent(r, kind) ==
    /\ KindOf(AllItems[r].message) = kind
    /\ kind \in AllItems[r].message.truthy

\* C12: a take_thread_control event whose previous owner is the configured
\* app (the ids have the same text) is fully discarded, also when a
\* take-thread action is configured; with another previous owner and a
\* configured action it gives exactly one processor call, with the synthesized
\* postback; without a configured action it is discarded.
C12_TakeThreadControl ==
    \A r \in 1..Len(AllItems) :
        IsControlEvent(r, "take_thread_control") =>
            IF \/ AllItems[r].message.previous_owner_app_id.text = options.appId.text
               \/ options.takeThreadAction = NULL
            THEN FullyDiscarded(r)
            ELSE DispatchedAsPostback(r, options.takeThreadAction,
                                      "take_thread_control")

\* A take_thread_control event of another app was handed to the processor
\* as a postback.
C12_Witness ==
    /\ Page
    /\ Len(AllItems) >= 1
    /\ IsControlEvent(1, "take_thread_control")
    /\ AllItems[1].message.previous_owner_app_id.text # options.appId.text
    /\ options.takeThreadAction # NULL
    /\ status[1] = "resolved"
    /\ TimesDispatched(1) = 1

\* The action configured for a thread-control kind.
ActionFor(kind) ==
    IF kind = "pass_thread_control" THEN options.passThreadAction
    ELSE options.requestThreadAction

\* C13, as claimed: a pass_thread_control (request_thread_control) event
\* gives exactly one processor call with a postback of the configured
\* pass-thread (request-thread) action, and is discarded when that action is
\* not configured.
C13_Claimed ==
    \A r \in 1..Len(AllItems) :
        \A kind \in { "pass_thread_control", "request_thread_control" } :
            IsControlEvent(r, kind) =>
                IF ActionFor(kind) = NULL
                THEN FullyDiscarded(r)
                ELSE DispatchedAsPostback(r, ActionFor(kind), kind)

ControlKinds ==
    { "take_thread_control", "pass_thread_control", "request_thread_control" }

\* C17, as claimed: an event whose kind (its first recognized key) is none
\* of the three thread-control kinds is dispatched to the processor
\* unchanged.
C17_Claimed ==
    \A r \in 1..Len(AllItems) :
        ( /\ KindOf(AllItems[r].message) \notin ControlKinds \cup { "other" }
          /\ Handled(r) )
        => /\ TimesDispatched(r) = 1
           /\ EventsDispatched(r) =
                 { [ type |-> "message", message |-> AllItems[r].message ] }

\* The queue an event is in: the sender id and the index.
QueuePlaces(r) ==
    { c \in SenderIds \X (1..MaxEvents) :
        /\ c[2] <= Len(eventsBySenderId[c[1]])
        /\ eventsBySenderId[c[1]][c[2]].message.ref = r }

\* The processable events without a sender, in the envelope's order.
NoSenderRefs ==
    LET sel == SelectSeq(AllItems, LAMBDA it :
                   /\ it.message.sender \in { UNDEFINED, NULL }
                   /\ it.message.defined \cap RecognizedKeys # {})
    IN  [ i \in 1..Len(sel) |-> sel[i].message.ref ]

\* C18: an event is processable (it is in a sender queue and not in the
\* pass-through list) iff it has a defined value under one of the nine
\* recognized keys; a processable event without a sender, or without a sender
\* id, is in the one queue of the sender id null, whose events are handed to
\* processMessage one at a time in the envelope's order.
C18_ProcessableAndNullQueue ==
    Page =>
        /\ \A r \in 1..Len(AllItems) :
              LET m == AllItems[r].message
              IN  IF m.defined \cap RecognizedKeys # {}
                  THEN /\ TimesPassedThrough(r) = 0
                       /\ Cardinality(QueuePlaces(r)) = 1
                       /\ m.sender \in { UNDEFINED, NULL } =>
                              \A c \in QueuePlaces(r) : c[1] = NULL
                  ELSE /\ TimesPassedThrough(r) = 1
                       /\ QueuePlaces(r) = {}
        /\ NoSenderRefs # << >> =>
              /\ NULL \in SenderIds
              /\ [ i \in 1..Len(eventsBySenderId[NULL]) |->
                     eventsBySenderId[NULL][i].message.ref ] = NoSenderRefs
              /\ Cardinality({ r \in DOMAIN status :
                     /\ status[r] \in { "inflight", "hung" }
                     /\ AllItems[r].message.sender \in { UNDEFINED, NULL } }) <= 1
              /\ \A i \in 1..Len(NoSenderRefs) : \A j \in (i + 1)..Len(NoSenderRefs) :
                     Handled(NoSenderRefs[j]) =>
                         status[NoSenderRefs[i]] \in { "resolved", "status201" }

\* An event without a sender object and an event whose sender has no id are
\* in the null queue: the first was dispatched and has completed, the second
\* is in flight.
C18_Witness ==
    /\ Page
    /\ Len(NoSenderRefs) = 2
    /\ AllItems[1].message.sender # AllItems[2].message.sender
    /\ status[1] = "resolved"
    /\ status[2] = "inflight"

\* ------------------------------------------------------------------- C14
\* The last call was verifyWebhook.
WebhookCalled == result.call = "verifyWebhook"

\* A verification failed with the Unauthorized error, code 401.
Unauthorized ==
    /\ result.outcome.type = "throw"
    /\ result.outcome.code = 401
    /\ result.outcome.message[1] = "Unauthorized: "

\* A token or secret is unset: absent or empty.
Unset(value) == value \in { UNDEFINED, NULL, "" }

\* C14: verifyWebhook fails with the Unauthorized error (code 401) when the
\* configured token is unset, when the query has no hub.verify_token or when
\* the supplied token differs from the configured one; in every other case it
\* returns the query's hub.challenge, whatever that is.
C14_VerifyWebhook ==
    WebhookCalled =>
        IF \/ Unset(options.botToken)
           \/ Unset(result.queryString.verify_token)
           \/ result.queryString.verify_token # options.botToken
        THEN Unauthorized
        ELSE /\ result.outcome.type = "return"
             /\ result.outcome.value = result.queryString.challenge

\* A query with the configured token got its challenge back.
C14_Witness ==
    /\ WebhookCalled
    /\ options.botToken = "tok1"
    /\ result.queryString = [ verify_token |-> "tok1", challenge |-> "c2" ]
    /\ result.outcome.type = "return"
    /\ result.outcome.value = "c2"

\* ------------------------------------------------------------------- C15
\* The last call was verifyRequest.
RequestCalled == result.call = "verifyRequest"

Succeeded == result.outcome = ResolvedPromise

\* The digest portion of a header text is digest: the text between its first
\* '=' and its next '=' or its end.
DigestPortionIs(text, digest) ==
    \E i \in 1..Len(text) :
        /\ text[i] = "="
        /\ \A k \in 1..(i - 1) : text[k] # "="
        /\ \E j \in i..Len(text) :
              /\ j = Len(text) \/ text[j + 1] = "="
              /\ \A k \in (i + 1)..j : text[k] # "="
              /\ SubSeq(text, i + 1, j) = << digest >>

\* The signature header carries digest as its digest portion.
HeaderDigestIs(headers, digest) ==
    /\ SignaturePresent(headers)
    /\ DigestPortionIs(Signature(headers), digest)

\* C15: with an app secret set, verifyRequest succeeds if and only if the
\* digest portion of the signature header is the hex HMAC-SHA1 of the raw
\* body keyed with appSecret, and fails with Unauthorized otherwise; after a
\* success, the same headers with a body of another digest are Unauthorized.
C15_SignatureDecides ==
    RequestCalled /\ ~Unset(options.appSecret) =>
        LET digest == HmacSha1Hex(options.appSecret, result.body)
        IN  /\ Succeeded <=> HeaderDigestIs(result.headers, digest)
            /\ ~Succeeded => Unauthorized
            /\ Succeeded =>
                 \A changed \in Bodies :
                    HmacSha1Hex(options.appSecret, changed) # digest =>
                        LET again == VerifyRequestResult(options, changed, result.headers)
                        IN  again.type = "throw" /\ again.code = 401

\* A request signed with the app secret was accepted, through the
\* capitalised header.
C15_Witness ==
    /\ RequestCalled
    /\ options.appSecret = "s2"
    /\ result.body = "body2"
    /\ DOMAIN result.headers = { "X-Hub-Signature" }
    /\ result.headers["X-Hub-Signature"] = << "sha1", "=", "d4" >>
    /\ Succeeded

\* ------------------------------------------------------------------- C16
\* C16: with appSecret unset verifyRequest succeeds for every body and every
\* header map; with appSecret set and neither x-hub-signature nor
\* X-Hub-Signature present it fails with Unauthorized.
C16_UnsetSecretAcceptsAll ==
    RequestCalled =>
        /\ Unset(options.appSecret) => Succeeded
        /\ ~Unset(options.appSecret) /\ DOMAIN result.headers = {} => Unauthorized

\* Without an app secret a request whose signature is the digest of nothing
\* was accepted.
C16_Witness ==
    /\ RequestCalled
    /\ options.appSecret = UNDEFINED
    /\ DOMAIN result.headers = { "x-hub-signature" }
    /\ result.headers["x-hub-signature"] = << "sha1", "=", "00" >>
    /\ Succeeded

\* ------------------------------------------------------------------- C19
\* The id of the entry of the envelope that contains the event r.
EntryIdOf(r) ==
    LET i == CHOOSE k \in DOMAIN body.entry :
                 \E j \in DOMAIN body.entry[k].messaging :
                     body.entry[k].messaging[j].ref = r
    IN  body.entry[i].id

\* C19: every processor call and every passed-through event carries the id
\* of the entry that contained its event, also when the events of one sender
\* come from entries with different ids.
C19_OwnEntryId ==
    Page =>
        /\ \A s \in SenderIds : \A i \in DOMAIN calls[s] :
              calls[s][i].pageId = EntryIdOf(calls[s][i].messageSender.message.ref)
        /\ \A i \in DOMAIN otherEvents :
              otherEvents[i].pageId = EntryIdOf(otherEvents[i].message.ref)

\* One sender's events came in two entries and both were dispatched, each
\* with another page id.
C19_Witness ==
    /\ Page
    /\ \E s \in SenderIds :
          /\ Len(calls[s]) = 2
          /\ calls[s][1].pageId = PageId(1)
          /\ calls[s][2].pageId = PageId(2)
          /\ calls[s][1].pageId = EntryIdOf(calls[s][1].messageSender.message.ref)
          /\ calls[s][2].pageId = EntryIdOf(calls[s][2].messageSender.message.ref)

\* ------------------------------------------------------------------- C20
\* The callback of event r found no event to dispatch and completed with
\* { status: 201 }.
CompletedWith201(r) == pc # "idle" /\ r \in DOMAIN status /\ status[r] = "status201"

\* Every dispatchable event of the sender of event r has been dispatched, in
\* order, or a processor call for that sender has failed or hangs.
QueueWentOn(r) ==
    /\ pc # "idle" /\ r \in DOMAIN status
    /\ LET s == SenderIdOf(AllItems[r].message)
       IN  \/ CallRefs(s) = DispatchableRefs(s)
           \/ \E q \in DOMAIN status :
                 /\ SenderIdOf(AllItems[q].message) = s
                 /\ status[q] \in { "rejected", "hung" }

\* The envelope has queues, and all their events are to be discarded.
OnlyDiscarded ==
    /\ Page /\ SenderIds # {}
    /\ \A s \in SenderIds : \A i \in DOMAIN eventsBySenderId[s] :
          Discarded(eventsBySenderId[s][i].message)

\* C20: a discarded thread-control event completes at once with status 201
\* and without a processor call, its sender's later events are still
\* dispatched in order unless one of the sender's own calls fails or hangs,
\* and processEvent returns when every queued event is discarded.
C20_DiscardGoesOn ==
    /\ [](\A r \in Refs : CompletedWith201(r) =>
            /\ Discarded(AllItems[r].message)
            /\ TimesDispatched(r) = 0
            /\ \A s \in SenderIds : Awaited(s) # r)
    /\ \A r \in Refs : CompletedWith201(r) ~> QueueWentOn(r)
    /\ OnlyDiscarded ~> (pc = "returned")

\* A sender's first event was discarded with status 201, its second event
\* was dispatched after it, and processEvent has returned.
C20_Witness ==
    /\ ReturnedPage
    /\ \E s \in SenderIds :
          /\ Len(eventsBySenderId[s]) >= 2
          /\ CompletedWith201(eventsBySenderId[s][1].message.ref)
          /\ CallRefs(s) = << eventsBySenderId[s][2].message.ref >>
====
